---- MODULE Spec2Model ----
(***************************************************************************)
(* Voice assistant (src/app/page.tsx): speech capture, turn orchestration, *)
(* cost accumulation and utterance playback of the VoiceAssistant React    *)
(* component.                                                              *)
(*                                                                         *)
(* The component is a function re-run on every render.  Its handlers close *)
(* over the state values of the render that created them, so the model     *)
(* carries, next to the committed React state, the captured values         *)
(* ("env") of every recognition object and of every pending timer.         *)
(* Text is a sequence of one-character strings.                            *)
(***************************************************************************)
EXTENDS Integers, Sequences, FiniteSets, TLC

\* ---------------------------------------------------------------- bounds
MaxBuf == 2
MaxMsgs == 4
MaxRecs == 2
MaxPending == 2
MaxUtter == 2
MaxClicks == 4
MaxVoices == 2
MaxTokens == 900

\* ------------------------------------------------------- program constants
SILENCE_MS == 3000
ERROR_RESTART_MS == 1000
END_RESTART_MS == 100
SPEAK_DELAY_MS == 100
VOICE_FALLBACK_MS == 1000
PROMPT_TOKEN_COST == 5
COMPLETION_TOKEN_COST == 15
USD_TO_BDT_RATE == 110

\* ------------------------------------------------------------------- text
NoText == << >>
Undefined == <<"undefined">>
NoTimer == 0
Stale == -1

FinalSegments == {<<"a">>, <<" ">>}
InterimSegments == {<<"i">>}
Replies == {<<"r">>}
Usages == {[promptTokens |-> 50, completionTokens |-> 20, totalTokens |-> 70]}
NoUsage == [promptTokens |-> 0, completionTokens |-> 0, totalTokens |-> 0]
RecognitionErrors == {"network", "no-speech", "aborted", "not-allowed"}

\* The errors a session can report after it has started.
LateErrors == {"network", "no-speech", "aborted"}

ErrNone == ""
ErrStart == "Could not start speech recognition. Please try again."
ErrProcess == "Failed to process your request. Please try again."
ErrScore == "Failed to get IELTS score. Please try again."
ErrNoConversation == "Please have a conversation first before requesting an IELTS score."

IsSpace(c) == c = " "

RECURSIVE TrimStart(_)
TrimStart(s) ==
  IF s # << >> /\ IsSpace(Head(s)) THEN TrimStart(Tail(s)) ELSE s

RECURSIVE TrimEnd(_)
TrimEnd(s) ==
  IF s # << >> /\ IsSpace(s[Len(s)]) THEN TrimEnd(SubSeq(s, 1, Len(s) - 1)) ELSE s

\* A trim that removes nothing.
TrimKeeps(s) == s

Trim(s) == TrimEnd(TrimStart(s))

Truthy(s) == s # NoText

\* --------------------------------------------------------------- variables
VARIABLES
  isListening, isProcessing, isSpeaking, messages, transcript, error,
  silenceTimer, hasSpokenContent, costs,
  finalTranscriptRef,
  recs,
  timers,
  inflight,
  synthAvailable, voicesLoaded, synthQueue, voiceListeners, synthEvents,
  clicks,
  availableVoices, utteranceVoice,
  costsJS

vars == << isListening, isProcessing, isSpeaking, messages, transcript, error,
           silenceTimer, hasSpokenContent, costs, finalTranscriptRef, recs,
           timers, inflight, synthAvailable, voicesLoaded, synthQueue,
           voiceListeners, synthEvents, clicks, availableVoices,
           utteranceVoice, costsJS >>

\* What a handler reads and writes: the React state (lines 48-62), the refs
\* (lines 64-66), the recognition objects, the pending timers, the requests
\* awaiting the backend, and the synthesis engine.
Now ==
  [isListening |-> isListening, isProcessing |-> isProcessing,
   isSpeaking |-> isSpeaking, messages |-> messages,
   transcript |-> transcript, error |-> error,
   silenceTimer |-> silenceTimer, hasSpokenContent |-> hasSpokenContent,
   costs |-> costs, finalTranscriptRef |-> finalTranscriptRef, recs |-> recs,
   timers |-> timers, inflight |-> inflight, voicesLoaded |-> voicesLoaded,
   synthQueue |-> synthQueue, voiceListeners |-> voiceListeners,
   synthEvents |-> synthEvents]

\* ------------------------------------------------------------ data model
Message(role, content) == [role |-> role, content |-> content]

ZeroCosts ==
  [totalPromptTokens |-> 0, totalCompletionTokens |-> 0, totalTokens |-> 0,
   totalCostUSD |-> 0, totalCostBDT |-> 0]

\* The values of one render that the handlers created by the effect capture.
Env(l, p, st, h, m) ==
  [isListening |-> l, isProcessing |-> p, silenceTimer |-> st,
   hasSpokenContent |-> h, messages |-> m]

NewRecognition(env) == [env |-> env, phase |-> "idle"]

\* recognitionRef.current is the object made by the latest effect run.
Current(S) == Len(S.recs)

RemoveAt(s, i) == SubSeq(s, 1, i - 1) \o SubSeq(s, i + 1, Len(s))

\* ------------------------------------------------------------------ timers
\* A pending setTimeout: its handle and the captured values its callback reads.
Timer(kind, id, l, h, m, text) ==
  [kind |-> kind, id |-> id, isListening |-> l, hasSpokenContent |-> h,
   messages |-> m, text |-> text]

Delay(tm) ==
  CASE tm.kind = "silence" -> SILENCE_MS
    [] tm.kind = "errorRestart" -> ERROR_RESTART_MS
    [] tm.kind = "endRestart" -> END_RESTART_MS
    [] tm.kind = "speak" -> SPEAK_DELAY_MS
    [] tm.kind = "voiceFallback" -> VOICE_FALLBACK_MS

\* A timer set earlier with a delay no longer than this one's fires first.
CanFire(i) == \A j \in 1..(i - 1) : Delay(timers[j]) > Delay(timers[i])

ClearTimeout(tms, id) ==
  IF id = NoTimer THEN tms ELSE SelectSeq(tms, LAMBDA tm : tm.id # id)

\* Timer handles.  A handle is only ever compared with null and passed to
\* clearTimeout, so the handle of a timer that has fired or been cleared is
\* kept as Stale, and the pending silence timers are numbered in the order
\* they were set.  A newly set timer gets FreshId until the step is over.
FreshId == MaxPending + 1

Pending(tms, id) == id # NoTimer /\ \E i \in 1..Len(tms) : tms[i].id = id

Rank(tms, id) ==
  Cardinality({i \in 1..Len(tms) :
                 /\ tms[i].id # NoTimer
                 /\ \E j \in i..Len(tms) : tms[j].id = id})

Handle(tms, id) ==
  IF id = NoTimer THEN NoTimer
  ELSE IF Pending(tms, id) THEN Rank(tms, id) ELSE Stale

HandlesOfTimers(tms) ==
  [i \in 1..Len(tms) |-> [tms[i] EXCEPT !.id = Handle(tms, tms[i].id)]]

HandlesOfRecs(rs, tms) ==
  [i \in 1..Len(rs) |->
     [rs[i] EXCEPT !.env.silenceTimer = Handle(tms, rs[i].env.silenceTimer)]]

\* ------------------------------------------------------ recognition engine
\* SpeechRecognition.start(): throws on an object that is not idle.
StartThrows(rec) == rec.phase # "idle"

EngineStart(rec) ==
  IF rec.phase = "idle" THEN [rec EXCEPT !.phase = "starting"] ELSE rec

\* SpeechRecognition.stop(): a running object returns what it has and ends;
\* one that has not begun to listen just ends.
EngineStop(rec) ==
  CASE rec.phase = "running" -> [rec EXCEPT !.phase = "stopping"]
    [] rec.phase = "starting" -> [rec EXCEPT !.phase = "cancelled"]
    [] OTHER -> rec

Live(rec) == rec.phase # "idle"

\* Objects that are no longer referenced and will deliver no event are dropped.
Collect(rs) ==
  SelectSeq(SubSeq(rs, 1, Len(rs) - 1), Live) \o <<rs[Len(rs)]>>

\* ------------------------------------------------------------- the voices
\* A voice of getVoices() as setVoiceAndSpeak reads it: whether its name
\* includes one of the five names of lines 409-413, whether its name in lower
\* case includes "female", and its lang.
Langs == {"en-US", "en-GB", "en-AU", "fr-FR"}

Voices == [listed : BOOLEAN, female : BOOLEAN, lang : Langs]

\* The voice of an utterance whose voice was never assigned.
EngineDefault == [listed |-> FALSE, female |-> FALSE, lang |-> "default"]

RECURSIVE SeqsUpTo(_, _)
SeqsUpTo(S, n) ==
  IF n = 0 THEN {<< >>}
  ELSE LET shorter == SeqsUpTo(S, n - 1)
       IN shorter \cup {Append(q, x) : q \in shorter, x \in S}

Catalogs == SeqsUpTo(Voices, MaxVoices)

LangStartsWithEn(v) == v.lang \in {"en-US", "en-GB", "en-AU"}

\* The predicate of availableVoices.find (lines 407-420).
Preferred(v) ==
  \/ v.listed
  \/ v.lang = "en-US" /\ v.female
  \/ v.lang = "en-GB" /\ v.female
  \/ v.lang = "en-US"
  \/ v.lang = "en-GB"
  \/ LangStartsWithEn(v)

\* Array.prototype.find: the first element that satisfies the predicate.
RECURSIVE Find(_)
Find(voices) ==
  IF voices = << >> THEN << >>
  ELSE IF Preferred(Head(voices)) THEN << Head(voices) >>
  ELSE Find(Tail(voices))

\* The voice setVoiceAndSpeak gives the utterance (lines 400-431).
ChooseVoice(voices, default) ==
  IF Len(voices) = 0 THEN default
  ELSE IF Find(voices) # << >> THEN Find(voices)[1]
  ELSE voices[1]

\* ------------------------------------------------------- synthesis engine
Utterance(text) == [text |-> text, started |-> FALSE]

\* speechSynthesis.cancel(): every utterance handed to the engine is dropped
\* and its end/error callback is delivered later.
SynthCancel(S) ==
  IF synthAvailable
  THEN [S EXCEPT !.synthQueue = << >>, !.synthEvents = @ + Len(S.synthQueue)]
  ELSE S

\* ---------------------------------------------------------------- playback
\* A setVoiceAndSpeak that never reaches speak().
SetVoiceAndSpeakSilent(text, S) == S

\* setVoiceAndSpeak (lines 397-458): hands the utterance to the engine.
SetVoiceAndSpeak(text, S) ==
  IF synthAvailable THEN [S EXCEPT !.synthQueue = Append(@, Utterance(text))] ELSE S

\* speakText (lines 374-495).
SpeakTextReturnsEarly(text) ==
  \/ text = Undefined \/ ~Truthy(text) \/ ~Truthy(Trim(text))
  \/ ~synthAvailable

SpeakText(text, S) ==
  IF SpeakTextReturnsEarly(text) THEN S
  ELSE IF S.voicesLoaded
       THEN SetVoiceAndSpeak(text, SynthCancel(S))
       ELSE [SynthCancel(S) EXCEPT
               !.voiceListeners = Append(@, text),
               !.timers = Append(@, Timer("voiceFallback", NoTimer, FALSE, FALSE,
                                          << >>, text))]

RECURSIVE SpeakAll(_, _)
SpeakAll(texts, S) ==
  IF texts = << >> THEN S ELSE SpeakAll(Tail(texts), SetVoiceAndSpeak(Head(texts), S))

\* The voiceschanged event: every handleVoicesChanged listener (lines 468-477)
\* runs setVoiceAndSpeak and removes itself.
HandleVoicesChanged(S) ==
  SpeakAll(S.voiceListeners, [S EXCEPT !.voicesLoaded = TRUE, !.voiceListeners = << >>])

\* stopSpeaking (lines 497-502).
StopSpeakingHandler(S) ==
  IF synthAvailable THEN [SynthCancel(S) EXCEPT !.isSpeaking = FALSE] ELSE S

\* utterance.onstart (lines 433-436).
UtteranceOnStart(S) == [S EXCEPT !.isSpeaking = TRUE]

\* utterance.onend and utterance.onerror (lines 438-446).
UtteranceOnEnd(S) == [S EXCEPT !.isSpeaking = FALSE]

\* ------------------------------------------------------ cost accumulation
\* calculateCost (lines 73-88); money in millionths of a dollar and of a taka,
\* so 0.005 and 0.015 dollars per 1000 tokens are 5 and 15 per token.
\* A cost that prices every token as a prompt token.
CostUSDFlat(usage) == usage.totalTokens * PROMPT_TOKEN_COST

CostUSD(usage) ==
  usage.promptTokens * PROMPT_TOKEN_COST + usage.completionTokens * COMPLETION_TOKEN_COST

CostBDT(usage) == CostUSD(usage) * USD_TO_BDT_RATE

CalculateCost(prev, usage) ==
  [totalPromptTokens |-> prev.totalPromptTokens + usage.promptTokens,
   totalCompletionTokens |-> prev.totalCompletionTokens + usage.completionTokens,
   totalTokens |-> prev.totalTokens + usage.totalTokens,
   totalCostUSD |-> prev.totalCostUSD + CostUSD(usage),
   totalCostBDT |-> prev.totalCostBDT + CostBDT(usage)]

\* A resetCosts that leaves the totals as they are.
ResetCostsKeeps(S) == S

\* resetCosts (lines 90-98).
ResetCosts(S) == [S EXCEPT !.costs = ZeroCosts]

\* ---------------------------------------------------------- JS numbers
\* A natural number of any size as its digits in base LimbBase, lowest first,
\* without leading zeros; 0 is the empty sequence.
LimbBits == 15

LimbBase == 2 ^ LimbBits

RECURSIVE FromInt(_)
FromInt(n) == IF n = 0 THEN << >> ELSE << n % LimbBase >> \o FromInt(n \div LimbBase)

RECURSIVE Norm(_)
Norm(a) ==
  IF a = << >> THEN a
  ELSE IF a[Len(a)] = 0 THEN Norm(SubSeq(a, 1, Len(a) - 1)) ELSE a

RECURSIVE BAddC(_, _, _)
BAddC(a, b, c) ==
  IF a = << >> /\ b = << >> THEN (IF c = 0 THEN << >> ELSE << c >>)
  ELSE LET s == (IF a = << >> THEN 0 ELSE Head(a))
                + (IF b = << >> THEN 0 ELSE Head(b)) + c
       IN << s % LimbBase >>
            \o BAddC(IF a = << >> THEN a ELSE Tail(a),
                     IF b = << >> THEN b ELSE Tail(b), s \div LimbBase)

BAdd(a, b) == BAddC(a, b, 0)

\* a * d + c for a digit d.
RECURSIVE BMulLimb(_, _, _)
BMulLimb(a, d, c) ==
  IF a = << >> THEN (IF c = 0 THEN << >> ELSE << c >>)
  ELSE LET t == Head(a) * d + c
       IN << t % LimbBase >> \o BMulLimb(Tail(a), d, t \div LimbBase)

RECURSIVE BMulRaw(_, _)
BMulRaw(a, b) ==
  IF a = << >> THEN << >>
  ELSE BAdd(BMulLimb(b, Head(a), 0), << 0 >> \o BMulRaw(Tail(a), b))

BMul(a, b) == Norm(BMulRaw(a, b))

\* Quotient and remainder of a by a divisor d below LimbBase.
RECURSIVE BDivSmallRaw(_, _)
BDivSmallRaw(a, d) ==
  IF a = << >> THEN [q |-> << >>, r |-> 0]
  ELSE LET hi == BDivSmallRaw(Tail(a), d)
           t == hi.r * LimbBase + Head(a)
       IN [q |-> << t \div d >> \o hi.q, r |-> t % d]

BDivSmall(a, d) ==
  LET qr == BDivSmallRaw(a, d) IN [q |-> Norm(qr.q), r |-> qr.r]

BitLen(a) ==
  IF a = << >> THEN 0
  ELSE LimbBits * (Len(a) - 1)
       + (CHOOSE k \in 1..LimbBits : 2 ^ (k - 1) <= a[Len(a)] /\ a[Len(a)] < 2 ^ k)

\* a * 2^k.
Shl(a, k) ==
  IF a = << >> THEN a
  ELSE [i \in 1..(k \div LimbBits) |-> 0] \o Norm(BMulLimb(a, 2 ^ (k % LimbBits), 0))

\* floor(a / 2^k), and whether anything was cut off.
Shr(a, k) ==
  LET n == k \div LimbBits
      cut == IF n > Len(a) THEN a ELSE SubSeq(a, 1, n)
      qr == BDivSmall(SubSeq(a, n + 1, Len(a)), 2 ^ (k % LimbBits))
  IN [q |-> qr.q, inexact |-> qr.r # 0 \/ \E i \in 1..Len(cut) : cut[i] # 0]

\* A double: the value m * 2^e with m of exactly MantissaBits binary digits,
\* or zero.
MantissaBits == 53

DoubleZero == [m |-> << >>, e |-> 0]

\* The double nearest to M * 2^e, ties to the even mantissa (the rounding of
\* every arithmetic operation of a JS number).
RoundToDouble(M, e) ==
  LET L == BitLen(M) IN
  IF L = 0 THEN DoubleZero
  ELSE IF L <= MantissaBits
  THEN [m |-> Shl(M, MantissaBits - L), e |-> e - (MantissaBits - L)]
  ELSE LET k == L - MantissaBits
           low == Shr(M, k - 1)
           half == low.q[1] % 2 = 1
           q == BDivSmall(low.q, 2).q
           up == half /\ (low.inexact \/ q[1] % 2 = 1)
           r == IF up THEN BAdd(q, << 1 >>) ELSE q
       IN IF BitLen(r) > MantissaBits
          THEN [m |-> BDivSmall(r, 2).q, e |-> e + k + 1]
          ELSE [m |-> r, e |-> e + k]

DoubleOfInt(n) == RoundToDouble(FromInt(n), 0)

\* n / d for integers n >= 0 and 0 < d < 2^10: the exact quotient rounded
\* once.  The quotient is taken to 2^-64 and a digit is added that tells
\* whether it is exact.
DoubleDiv(n, d) ==
  LET qr == BDivSmall(Shl(FromInt(n), 64), d)
      M == BAdd(BMulLimb(qr.q, 2, 0), IF qr.r = 0 THEN << >> ELSE << 1 >>)
  IN RoundToDouble(M, 0 - 65)

DoubleMul(x, y) == RoundToDouble(BMul(x.m, y.m), x.e + y.e)

DoubleAdd(x, y) ==
  IF x.m = << >> THEN y
  ELSE IF y.m = << >> THEN x
  ELSE LET e == IF x.e < y.e THEN x.e ELSE y.e
       IN RoundToDouble(BAdd(Shl(x.m, x.e - e), Shl(y.m, y.e - e)), e)

\* The literals of lines 69-71 as JS numbers.
PROMPT_TOKEN_COST_JS == DoubleDiv(5, 1000)

COMPLETION_TOKEN_COST_JS == DoubleDiv(15, 1000)

USD_TO_BDT_RATE_JS == DoubleOfInt(110)

\* calculateCost (lines 73-88) in the arithmetic of JS numbers.
CostUSDJS(usage) ==
  DoubleAdd(DoubleMul(DoubleDiv(usage.promptTokens, 1000), PROMPT_TOKEN_COST_JS),
            DoubleMul(DoubleDiv(usage.completionTokens, 1000), COMPLETION_TOKEN_COST_JS))

CostBDTJS(usage) == DoubleMul(CostUSDJS(usage), USD_TO_BDT_RATE_JS)

\* A calculateCost that keeps the last usage instead of the sum.
CalculateCostJSLast(prev, usage) ==
  [totalPromptTokens |-> usage.promptTokens,
   totalCompletionTokens |-> usage.completionTokens,
   totalTokens |-> usage.totalTokens,
   totalCostUSD |-> CostUSDJS(usage),
   totalCostBDT |-> CostBDTJS(usage)]

CalculateCostJS(prev, usage) ==
  [totalPromptTokens |-> prev.totalPromptTokens + usage.promptTokens,
   totalCompletionTokens |-> prev.totalCompletionTokens + usage.completionTokens,
   totalTokens |-> prev.totalTokens + usage.totalTokens,
   totalCostUSD |-> DoubleAdd(prev.totalCostUSD, CostUSDJS(usage)),
   totalCostBDT |-> DoubleAdd(prev.totalCostBDT, CostBDTJS(usage))]

ZeroCostsJS ==
  [totalPromptTokens |-> 0, totalCompletionTokens |-> 0, totalTokens |-> 0,
   totalCostUSD |-> DoubleZero, totalCostBDT |-> DoubleZero]

\* ------------------------------------------------------ turn orchestration
Request(type, message, history) ==
  [requestType |-> type, message |-> message, conversationHistory |-> history]

\* A log that is replaced by the new user message.
UpdatedMessagesOnly(m, input) == << Message("user", input) >>

\* updatedMessages (lines 261-267).
UpdatedMessages(m, input) == Append(m, Message("user", input))

\* A history that is the whole of updatedMessages.
HistorySentWhole(updated) == updated

\* updatedMessages.slice(0, -1) (line 281).
HistorySent(updated) == SubSeq(updated, 1, Len(updated) - 1)

\* A submission that leaves isProcessing as it is.
BeginProcessingSkipped(S) == S

\* setIsProcessing(true) (lines 269 and 327).
BeginProcessing(S) == [S EXCEPT !.isProcessing = TRUE]

\* A handleUserInput that returns without doing anything.
HandleUserInputDropped(input, m, S) == S

\* handleUserInput (lines 258-284) up to its first await; m is the `messages`
\* value of the render whose handleUserInput is being called.
HandleUserInput(input, m, S) ==
  IF ~Truthy(Trim(input)) THEN S
  ELSE [BeginProcessing(S) EXCEPT
          !.messages = UpdatedMessages(m, input),
          !.transcript = NoText,
          !.inflight = Append(@, Request("normal", input,
                                         HistorySent(UpdatedMessages(m, input))))]

\* A requestIELTSScore without the test of the log.
RequestIELTSScoreUnguarded(m, S) ==
  [BeginProcessing(S) EXCEPT
     !.inflight = Append(@, Request("ielts_score", NoText, m))]

\* requestIELTSScore (lines 319-340) up to its first await.
RequestIELTSScoreHandler(m, S) ==
  IF Len(m) = 0 THEN [S EXCEPT !.error = ErrNoConversation]
  ELSE [BeginProcessing(S) EXCEPT
          !.inflight = Append(@, Request("ielts_score", NoText, m))]

\* What the network hands back to the awaiting handler.
Response(outcome, text, usage) == [outcome |-> outcome, response |-> text, usage |-> usage]

Responses ==
  {Response("ok", r, u) : r \in Replies, u \in Usages \cup {NoUsage}}
    \cup {Response("ok", Undefined, NoUsage),
          Response("status", NoText, NoUsage),
          Response("network", NoText, NoUsage),
          Response("badjson", NoText, NoUsage)}

\* fetch rejected, !response.ok, or response.json() rejected: the catch path.
Throws(resp) == resp.outcome # "ok"

\* A catch block that surfaces nothing.
FailureTextNone(req) == ErrNone

\* setError of the catch block (lines 312 and 367).
FailureText(req) == IF req.requestType = "normal" THEN ErrProcess ELSE ErrScore

\* The try block after the awaits (lines 290-310 and 346-365).
OnReply(resp, S) ==
  [S EXCEPT
     !.messages = Append(@, Message("assistant", resp.response)),
     !.costs = IF resp.usage # NoUsage THEN CalculateCost(@, resp.usage) ELSE @,
     !.timers = Append(@, Timer("speak", NoTimer, FALSE, FALSE, << >>, resp.response))]

\* The catch block (lines 311-313 and 366-368).
OnFailure(req, S) == [S EXCEPT !.error = FailureText(req)]

\* A handler without its finally block.
FinallySkipped(S) == S

\* The finally block (lines 314-316 and 369-371).
Finally(S) == [S EXCEPT !.isProcessing = FALSE]

\* handleUserInput / requestIELTSScore from the answer of the backend on.
Settle(req, resp, S) ==
  Finally(IF Throws(resp) THEN OnFailure(req, S) ELSE OnReply(resp, S))

\* Clear Chat onClick (lines 523-526).
ClearChatHandler(S) == ResetCosts([S EXCEPT !.messages = << >>])

\* ---------------------------------------------------------------- capture
\* startListening (lines 224-238) of a render whose isListening is l.
StartListeningHandler(l, S) ==
  IF l THEN S
  ELSE [S EXCEPT
          !.transcript = NoText,
          !.finalTranscriptRef = NoText,
          !.hasSpokenContent = FALSE,
          !.error = IF StartThrows(S.recs[Current(S)]) THEN ErrStart ELSE ErrNone,
          !.recs[Current(S)] = EngineStart(@)]

\* stopListening (lines 240-256) of the latest render.
StopListeningHandler(S) ==
  LET stopped == [S EXCEPT
                    !.isListening = FALSE,
                    !.recs[Current(S)] = EngineStop(@),
                    !.timers = ClearTimeout(@, S.silenceTimer),
                    !.silenceTimer = NoTimer]
      input == Trim(S.finalTranscriptRef)
      flushed == IF Truthy(input)
                 THEN [HandleUserInput(input, S.messages, stopped) EXCEPT
                         !.finalTranscriptRef = NoText]
                 ELSE stopped
  IN [flushed EXCEPT !.hasSpokenContent = FALSE]

\* recognition.onstart (lines 118-123).
OnStartHandler(S) ==
  [S EXCEPT !.isListening = TRUE, !.error = ErrNone,
            !.finalTranscriptRef = NoText, !.hasSpokenContent = FALSE]

\* An onresult that appends the interim results to the buffer as well.
OnResultHandlerKeepsInterim(env, final, interim, S) ==
  LET shown == [S EXCEPT !.transcript = S.finalTranscriptRef \o final \o interim]
      armed ==
        IF Truthy(final)
        THEN [shown EXCEPT
                !.finalTranscriptRef = @ \o final \o interim,
                !.hasSpokenContent = TRUE,
                !.timers = Append(ClearTimeout(@, env.silenceTimer),
                                  Timer("silence", FreshId, FALSE,
                                        env.hasSpokenContent, env.messages, NoText)),
                !.silenceTimer = FreshId]
        ELSE shown
  IN IF Truthy(interim) /\ env.silenceTimer # NoTimer
     THEN [armed EXCEPT !.timers = ClearTimeout(@, env.silenceTimer),
                        !.silenceTimer = NoTimer]
     ELSE armed

\* recognition.onresult (lines 125-170) of an object whose handlers captured
\* env; the event's final results concatenate to `final`, its interim results
\* to `interim`.
OnResultHandler(env, final, interim, S) ==
  LET shown == [S EXCEPT !.transcript = S.finalTranscriptRef \o final \o interim]
      armed ==
        IF Truthy(final)
        THEN [shown EXCEPT
                !.finalTranscriptRef = @ \o final,
                !.hasSpokenContent = TRUE,
                !.timers = Append(ClearTimeout(@, env.silenceTimer),
                                  Timer("silence", FreshId, FALSE,
                                        env.hasSpokenContent, env.messages, NoText)),
                !.silenceTimer = FreshId]
        ELSE shown
  IN IF Truthy(interim) /\ env.silenceTimer # NoTimer
     THEN [armed EXCEPT !.timers = ClearTimeout(@, env.silenceTimer),
                        !.silenceTimer = NoTimer]
     ELSE armed

\* A silence timer callback that empties the buffer without submitting.
SilenceCallbackDiscards(tm, S) ==
  [S EXCEPT !.finalTranscriptRef = NoText, !.hasSpokenContent = FALSE]

\* The silence timer callback (lines 154-160), with the values captured by
\* the onresult handler that armed it.
SilenceCallback(tm, S) ==
  IF Truthy(Trim(S.finalTranscriptRef)) /\ tm.hasSpokenContent
  THEN [HandleUserInput(Trim(S.finalTranscriptRef), tm.messages, S) EXCEPT
          !.finalTranscriptRef = NoText,
          !.hasSpokenContent = FALSE]
  ELSE S

RecognitionErrorText(err) ==
  CASE err = "aborted" -> "Speech recognition error: aborted"
    [] err = "not-allowed" -> "Speech recognition error: not-allowed"
    [] err = "network" -> "Speech recognition error: network"
    [] err = "no-speech" -> "Speech recognition error: no-speech"

\* A handler that lets only network errors pass.
TransientNetworkOnly(err) == err = "network"

\* The errors onerror returns on at once (line 176).
Transient(err) == err = "network" \/ err = "no-speech"

\* recognition.onerror (lines 172-190).
OnErrorHandler(env, err, S) ==
  IF Transient(err) \/ err = "aborted" THEN S
  ELSE [S EXCEPT
          !.error = RecognitionErrorText(err),
          !.timers = Append(@, Timer("errorRestart", NoTimer, env.isListening,
                                     FALSE, << >>, NoText))]

\* A restart timer of onerror that starts whatever its render's flag was.
ErrorRestartCallbackUnguarded(tm, S) == StartListeningHandler(FALSE, S)

\* The restart timer of onerror (lines 184-188): startListening of the same
\* render, whose own guard reads the same isListening.
ErrorRestartCallback(tm, S) ==
  IF tm.isListening THEN StartListeningHandler(tm.isListening, S) ELSE S

\* An onend that schedules its restart whatever the flags of its render are.
OnEndHandlerUnguarded(env, S) ==
  [S EXCEPT !.timers = Append(@, Timer("endRestart", NoTimer, TRUE,
                                       FALSE, << >>, NoText))]

\* recognition.onend (lines 192-205).
OnEndHandler(env, S) ==
  IF env.isListening /\ ~env.isProcessing
  THEN [S EXCEPT !.timers = Append(@, Timer("endRestart", NoTimer, env.isListening,
                                            FALSE, << >>, NoText))]
  ELSE S

\* The restart timer of onend (lines 195-203).
EndRestartCallback(tm, S) ==
  IF tm.isListening THEN [S EXCEPT !.recs[Current(S)] = EngineStart(@)] ELSE S

\* ------------------------------------------------------- render and effect
\* The dependency list of the effect (line 222), compared with the values of
\* the previous render.
DepsChanged(T) ==
  << T.isListening, T.isProcessing, T.silenceTimer, T.hasSpokenContent >>
    # << isListening, isProcessing, silenceTimer, hasSpokenContent >>

\* The cleanup of the previous effect run (lines 215-221), reading the
\* silenceTimer its render captured.
Cleanup(T) ==
  SynthCancel([T EXCEPT
                 !.timers = ClearTimeout(@, T.recs[Current(T)].env.silenceTimer),
                 !.recs[Current(T)] = EngineStop(@)])

\* The effect body (lines 100-213): a new recognition object whose handlers
\* capture the values of the new render.
Effect(T) ==
  [T EXCEPT !.recs = Append(@, NewRecognition(
                       Env(T.isListening, T.isProcessing, T.silenceTimer,
                           T.hasSpokenContent, T.messages)))]

Rendered(T) ==
  LET E == IF DepsChanged(T) THEN Effect(Cleanup(T)) ELSE T
  IN [E EXCEPT !.recs = Collect(@)]

WithinBounds(R) ==
  /\ Len(R.recs) <= MaxRecs
  /\ Len(R.timers) + Len(R.inflight) <= MaxPending
  /\ Len(R.messages) + Len(R.inflight) <= MaxMsgs
  /\ Len(R.finalTranscriptRef) <= MaxBuf
  /\ Len(R.synthQueue) + R.synthEvents <= MaxUtter
  /\ Len(R.voiceListeners) <= MaxUtter

\* The state after a handler has run and React has rendered its updates.
Commit(T) ==
  \E R \in {Rendered(T)} :
     /\ WithinBounds(R)
     /\ isListening' = R.isListening
     /\ isProcessing' = R.isProcessing
     /\ isSpeaking' = R.isSpeaking
     /\ messages' = R.messages
     /\ transcript' = R.transcript
     /\ error' = R.error
     /\ silenceTimer' = Handle(R.timers, R.silenceTimer)
     /\ hasSpokenContent' = R.hasSpokenContent
     /\ costs' = R.costs
     /\ finalTranscriptRef' = R.finalTranscriptRef
     /\ recs' = HandlesOfRecs(R.recs, R.timers)
     /\ timers' = HandlesOfTimers(R.timers)
     /\ inflight' = R.inflight
     /\ voicesLoaded' = R.voicesLoaded
     /\ synthQueue' = R.synthQueue
     /\ voiceListeners' = R.voiceListeners
     /\ synthEvents' = R.synthEvents
     /\ synthAvailable' = synthAvailable
     /\ UNCHANGED << availableVoices, utteranceVoice, costsJS >>

\* ------------------------------------------------------------------- Init
Init ==
  /\ isListening = FALSE
  /\ isProcessing = FALSE
  /\ isSpeaking = FALSE
  /\ messages = << >>
  /\ transcript = NoText
  /\ error = ErrNone
  /\ silenceTimer = NoTimer
  /\ hasSpokenContent = FALSE
  /\ costs = ZeroCosts
  /\ finalTranscriptRef = NoText
  /\ recs = << NewRecognition(Env(FALSE, FALSE, NoTimer, FALSE, << >>)) >>
  /\ timers = << >>
  /\ inflight = << >>
  /\ synthAvailable \in BOOLEAN
  /\ voicesLoaded \in (IF synthAvailable THEN BOOLEAN ELSE {FALSE})
  /\ synthQueue = << >>
  /\ voiceListeners = << >>
  /\ synthEvents = 0
  /\ clicks = 0
  /\ availableVoices = << >>
  /\ utteranceVoice = EngineDefault
  /\ costsJS = ZeroCostsJS

\* ---------------------------------------------------------------- actions
\* A press of one of the buttons; every other step is an event of the
\* browser.
Click == clicks < MaxClicks /\ clicks' = clicks + 1

NoClick == clicks' = clicks

\* A microphone button that stays enabled while a request is processed.
MicButtonEnabled == FALSE

\* The microphone button is disabled while a request is processed (line 603).
MicButtonDisabled == isProcessing

\* The microphone button while not listening (line 602).
StartListening ==
  /\ ~MicButtonDisabled /\ ~isListening
  /\ Click
  /\ Commit(StartListeningHandler(isListening, Now))

\* The microphone button while listening (line 602).
StopListening ==
  /\ ~MicButtonDisabled /\ isListening
  /\ Click
  /\ Commit(StopListeningHandler(Now))

OnStart(i) ==
  /\ recs[i].phase = "starting"
  /\ NoClick
  /\ Commit(OnStartHandler([Now EXCEPT !.recs[i].phase = "running"]))

OnResult(i, final, interim) ==
  /\ recs[i].phase \in {"running", "stopping"}
  /\ Truthy(final) \/ Truthy(interim)
  /\ NoClick
  /\ Commit(OnResultHandler(recs[i].env, final, interim, Now))

\* An error ends the session: onerror is followed by onend only.  A session
\* that is still delivering after stop() can fail with the errors that do not
\* belong to its start.
OnError(i, err) ==
  /\ \/ recs[i].phase \in {"starting", "running"}
     \/ recs[i].phase = "stopping" /\ err \in LateErrors
  /\ NoClick
  /\ Commit(OnErrorHandler(recs[i].env, err, [Now EXCEPT !.recs[i].phase = "cancelled"]))

OnEnd(i) ==
  /\ recs[i].phase \in {"running", "stopping", "cancelled"}
  /\ NoClick
  /\ Commit(OnEndHandler(recs[i].env, [Now EXCEPT !.recs[i].phase = "idle"]))

Fires(i, kind) == timers[i].kind = kind /\ CanFire(i) /\ NoClick

Fired(i) == [Now EXCEPT !.timers = RemoveAt(@, i)]

SilenceTimerFires(i) ==
  Fires(i, "silence") /\ Commit(SilenceCallback(timers[i], Fired(i)))

ErrorRestartFires(i) ==
  Fires(i, "errorRestart") /\ Commit(ErrorRestartCallback(timers[i], Fired(i)))

EndRestartFires(i) ==
  Fires(i, "endRestart") /\ Commit(EndRestartCallback(timers[i], Fired(i)))

\* The setTimeout of lines 307-310 and 362-365.
SpeakTimerFires(i) ==
  Fires(i, "speak") /\ Commit(SpeakText(timers[i].text, Fired(i)))

\* The setTimeout of lines 482-493.
VoiceFallbackFires(i) ==
  Fires(i, "voiceFallback") /\ Commit(SetVoiceAndSpeak(timers[i].text, Fired(i)))

\* The backend answers request k: the awaiting handler resumes.
Resolve(k, resp) ==
  /\ NoClick
  /\ Commit(Settle(inflight[k], resp, [Now EXCEPT !.inflight = RemoveAt(@, k)]))

\* The Clear Chat button (lines 520-532).
ClearChat ==
  /\ Len(messages) > 0
  /\ Click
  /\ Commit(ClearChatHandler(Now))

\* The Get IELTS Score button as written in lines 533-541; the JSX that
\* renders it is commented out.
RequestIELTSScore ==
  /\ Len(messages) > 0 /\ ~isProcessing
  /\ Click
  /\ Commit(RequestIELTSScoreHandler(messages, Now))

\* The replay button of an assistant message (lines 734-743).
Replay(i) ==
  /\ messages[i].role = "assistant" /\ ~isSpeaking
  /\ Click
  /\ Commit(SpeakText(messages[i].content, Now))

\* The Stop Speaking button (lines 649-660).
StopSpeaking ==
  /\ isSpeaking
  /\ Click
  /\ Commit(StopSpeakingHandler(Now))

VoicesChanged ==
  /\ synthAvailable /\ ~voicesLoaded
  /\ NoClick
  /\ Commit(HandleVoicesChanged(Now))

UtteranceStart ==
  /\ synthQueue # << >> /\ ~synthQueue[1].started
  /\ NoClick
  /\ Commit(UtteranceOnStart([Now EXCEPT !.synthQueue[1].started = TRUE]))

UtteranceEnd ==
  /\ synthQueue # << >> /\ synthQueue[1].started
  /\ NoClick
  /\ Commit(UtteranceOnEnd([Now EXCEPT !.synthQueue = Tail(@)]))

CancelledUtteranceEvent ==
  /\ synthEvents > 0
  /\ NoClick
  /\ Commit(UtteranceOnEnd([Now EXCEPT !.synthEvents = @ - 1]))

\* ------------------------------------------------------------------- Next
Segments == FinalSegments \cup {NoText}

Interims == InterimSegments \cup {NoText}

Capture ==
  \/ StartListening
  \/ StopListening
  \/ \E i \in 1..Len(recs) : OnStart(i)
  \/ \E i \in 1..Len(recs), final \in Segments, interim \in Interims :
       OnResult(i, final, interim)
  \/ \E i \in 1..Len(recs) : OnEnd(i)
  \/ \E i \in 1..Len(timers) : SilenceTimerFires(i)

EngineErrors ==
  \/ \E i \in 1..Len(recs), err \in RecognitionErrors : OnError(i, err)
  \/ \E i \in 1..Len(timers) : ErrorRestartFires(i)

Orchestration ==
  \/ \E k \in 1..Len(inflight), resp \in Responses : Resolve(k, resp)
  \/ \E i \in 1..Len(timers) : SpeakTimerFires(i)
  \/ ClearChat

PlaybackEvents ==
  \/ \E i \in 1..Len(timers) : VoiceFallbackFires(i)
  \/ \E i \in 1..Len(messages) : Replay(i)
  \/ VoicesChanged
  \/ StopSpeaking
  \/ UtteranceStart
  \/ UtteranceEnd
  \/ CancelledUtteranceEvent

\* The program as wired.  The restart timer of onend is never set: an object
\* is only started by a render whose isListening is false, and its handlers
\* keep that value.
Next == Capture \/ EngineErrors \/ Orchestration \/ PlaybackEvents

Spec == Init /\ [][Next]_vars

\* The program with the Get IELTS Score button rendered.
NextScore == Next \/ RequestIELTSScore

SpecScore == Init /\ [][NextScore]_vars

\* requestIELTSScore called over an empty log (lines 319-325).  The button as
\* written sits inside the block shown for a non-empty log, so this is a call
\* of the function itself.
RequestIELTSScoreOnEmptyLog ==
  /\ Len(messages) = 0 /\ ~isProcessing
  /\ Click
  /\ Commit(RequestIELTSScoreHandler(messages, Now))

NextCalls == NextScore \/ RequestIELTSScoreOnEmptyLog

SpecCalls == Init /\ [][NextCalls]_vars

\* The backend eventually resolves or rejects every request.
Fairness == WF_vars(\E k \in 1..Len(inflight), resp \in Responses : Resolve(k, resp))

SpecLive == Init /\ [][NextScore]_vars /\ Fairness

\* The choice of the voice on its own: getVoices() returns any catalog, and
\* setVoiceAndSpeak assigns the voice of a new utterance (lines 400-431).
Idle ==
  /\ isListening = FALSE
  /\ isProcessing = FALSE
  /\ isSpeaking = FALSE
  /\ messages = << >>
  /\ transcript = NoText
  /\ error = ErrNone
  /\ silenceTimer = NoTimer
  /\ hasSpokenContent = FALSE
  /\ finalTranscriptRef = NoText
  /\ recs = << NewRecognition(Env(FALSE, FALSE, NoTimer, FALSE, << >>)) >>
  /\ timers = << >>
  /\ inflight = << >>
  /\ synthAvailable = TRUE
  /\ voicesLoaded = FALSE
  /\ synthQueue = << >>
  /\ voiceListeners = << >>
  /\ synthEvents = 0
  /\ clicks = 0

InitVoices ==
  /\ Idle
  /\ costs = ZeroCosts
  /\ costsJS = ZeroCostsJS
  /\ availableVoices \in Catalogs
  /\ utteranceVoice = EngineDefault

Session ==
  << isListening, isProcessing, isSpeaking, messages, transcript, error,
     silenceTimer, hasSpokenContent, finalTranscriptRef, recs, timers,
     inflight, synthAvailable, voicesLoaded, synthQueue, voiceListeners,
     synthEvents, clicks >>

SetVoice ==
  /\ utteranceVoice' = ChooseVoice(availableVoices, EngineDefault)
  /\ UNCHANGED << availableVoices, costs, costsJS >>
  /\ UNCHANGED Session

\* The browser changes its catalog (voiceschanged).
GetVoicesChanges ==
  /\ availableVoices' \in Catalogs
  /\ utteranceVoice' = EngineDefault
  /\ UNCHANGED << costs, costsJS >>
  /\ UNCHANGED Session

NextVoices == SetVoice \/ GetVoicesChanges

SpecVoices == InitVoices /\ [][NextVoices]_vars

\* The cost accumulator on its own: calculateCost applied to any usage and
\* resetCosts, from any totals reached that way.  costs holds the totals in
\* exact arithmetic, costsJS the totals the JS numbers hold.
UsageInputs ==
  {[promptTokens |-> 100, completionTokens |-> 50, totalTokens |-> 150],
   [promptTokens |-> 200, completionTokens |-> 100, totalTokens |-> 300],
   [promptTokens |-> 300, completionTokens |-> 150, totalTokens |-> 450],
   [promptTokens |-> 50, completionTokens |-> 20, totalTokens |-> 70],
   [promptTokens |-> 0, completionTokens |-> 50, totalTokens |-> 50]}

InitCosts ==
  /\ Idle
  /\ costs = ZeroCosts
  /\ costsJS = ZeroCostsJS
  /\ availableVoices = << >>
  /\ utteranceVoice = EngineDefault

RecordUsage(usage) ==
  /\ costs.totalTokens + usage.totalTokens <= MaxTokens
  /\ costs' = CalculateCost(costs, usage)
  /\ costsJS' = CalculateCostJS(costsJS, usage)
  /\ UNCHANGED << availableVoices, utteranceVoice >>
  /\ UNCHANGED Session

ResetCostsPressed ==
  /\ costs' = ZeroCosts
  /\ costsJS' = ZeroCostsJS
  /\ UNCHANGED << availableVoices, utteranceVoice >>
  /\ UNCHANGED Session

NextCosts == (\E usage \in UsageInputs : RecordUsage(usage)) \/ ResetCostsPressed

SpecCosts == InitCosts /\ [][NextCosts]_vars

\* Timers that are due fire, and the synthesis engine delivers the events of
\* the utterances it was handed.  Nothing is assumed of voiceschanged.
FairPlayback ==
  /\ WF_vars(\E i \in 1..Len(timers) : VoiceFallbackFires(i))
  /\ WF_vars(\E i \in 1..Len(timers) : SpeakTimerFires(i))
  /\ WF_vars(\E i \in 1..Len(timers) : ErrorRestartFires(i))
  /\ WF_vars(UtteranceStart)
  /\ WF_vars(UtteranceEnd)
  /\ WF_vars(CancelledUtteranceEvent)

SpecPlay == Init /\ [][Next]_vars /\ FairPlayback

\* ----------------------------------------------------------- properties
IsPrefix(a, b) == Len(a) <= Len(b) /\ SubSeq(b, 1, Len(a)) = a

UserMessages(m) == Cardinality({i \in 1..Len(m) : m[i].role = "user"})

Count(tms, kind) == Cardinality({i \in 1..Len(tms) : tms[i].kind = kind})

SpeakCount(tms, text) ==
  Cardinality({i \in 1..Len(tms) : tms[i].kind = "speak" /\ tms[i].text = text})

Issued == Len(inflight') = Len(inflight) + 1

LastIssued == inflight'[Len(inflight')]

X2_SilenceSubmits ==
  [][\A i \in 1..Len(timers) :
       (/\ isListening /\ ~isProcessing
        /\ timers[i].id = silenceTimer
        /\ Truthy(Trim(finalTranscriptRef))
        /\ SilenceTimerFires(i))
       => (Issued /\ LastIssued.message = Trim(finalTranscriptRef))]_vars

\* C3 (as claimed): an interim segment that arrives while the silence timer of
\* a final segment is pending cancels that timer.
X3_InterimCancels ==
  [][\A i \in 1..Len(recs), interim \in InterimSegments :
       (/\ Pending(timers, silenceTimer)
        /\ OnResult(i, NoText, interim))
       => Count(timers', "silence") < Count(timers, "silence")]_vars

\* C4 (as claimed): stopListening over a non-empty buffer submits one turn
\* whose content is the buffer, and leaves the buffer empty.
X4_StopSubmitsBuffer ==
  [][(finalTranscriptRef # NoText /\ StopListening)
       => (/\ Issued
           /\ LastIssued.message = finalTranscriptRef
           /\ finalTranscriptRef' = NoText)]_vars

\* C4 (amended): stopListening over a buffer that holds more than white space
\* submits exactly one turn whose content is the buffer without its leading
\* and trailing white space, empties the buffer and cancels the tracked
\* silence timer; over a buffer of white space only it submits nothing and
\* leaves the buffer; and no silence timer submits anything when it fires.
C4_StopSubmitsTrimmed ==
  [][/\ StopListening =>
          /\ silenceTimer' = NoTimer
          /\ Pending(timers, silenceTimer) =>
               Count(timers', "silence") = Count(timers, "silence") - 1
          /\ IF \E j \in 1..Len(finalTranscriptRef) : ~IsSpace(finalTranscriptRef[j])
             THEN /\ Issued
                  /\ LastIssued.requestType = "normal"
                  /\ LastIssued.message # NoText
                  /\ ~IsSpace(Head(LastIssued.message))
                  /\ ~IsSpace(LastIssued.message[Len(LastIssued.message)])
                  /\ \E j, k \in 0..Len(finalTranscriptRef) :
                       /\ finalTranscriptRef =
                            [n \in 1..j |-> " "] \o LastIssued.message
                              \o [n \in 1..k |-> " "]
                  /\ finalTranscriptRef' = NoText
             ELSE /\ inflight' = inflight
                  /\ finalTranscriptRef' = finalTranscriptRef
     /\ \A i \in 1..Len(timers) : SilenceTimerFires(i) => inflight' = inflight]_vars

\* stopListening has flushed the buffer: the request carries its text, the
\* buffer is empty and no silence timer is tracked.
W4_StoppedWithBuffer ==
  /\ ~isListening /\ isProcessing
  /\ Len(inflight) = 1 /\ inflight[1].message = <<"a">>
  /\ messages = << Message("user", <<"a">>) >>
  /\ transcript = NoText
  /\ finalTranscriptRef = NoText
  /\ silenceTimer = NoTimer

\* C5: while a request issued by handleUserInput or requestIELTSScore is
\* unresolved, isProcessing is true.
C5_BusyWhileUnresolved == Len(inflight) > 0 => isProcessing

\* A score request is awaiting the backend.
W5_ScoreRequestUnresolved ==
  /\ Len(inflight) = 1 /\ inflight[1].requestType = "ielts_score"
  /\ isProcessing

\* C6: every backend call that is started leaves isProcessing false, whatever
\* the backend answers, provided it answers.
C6_ProcessingEnds == isProcessing ~> ~isProcessing

\* A turn and a score request have both failed: each call is over and
\* nothing is being processed.
W6_CallEnded ==
  /\ ~isProcessing /\ inflight = << >> /\ error = ErrScore
  /\ Len(messages) = 1

\* C7: a submitted turn puts the user's message at the end of the log, and
\* when its backend call fails the log and the transcript buffer are left as
\* they are, the error is the generic failure message and isProcessing is false.
C7_FailureKeepsLog ==
  [][/\ (Issued /\ LastIssued.requestType = "normal")
          => messages' = Append(messages, Message("user", LastIssued.message))
     /\ \A k \in 1..Len(inflight), resp \in Responses :
          (/\ inflight[k].requestType = "normal"
           /\ resp.outcome \in {"status", "network", "badjson"}
           /\ Resolve(k, resp))
          => /\ messages' = messages
             /\ error' = ErrProcess
             /\ finalTranscriptRef' = finalTranscriptRef
             /\ ~isProcessing']_vars

\* The call of a turn has failed: its user message is the last of the log.
W7_TurnFailed ==
  /\ error = ErrProcess /\ ~isProcessing /\ inflight = << >>
  /\ Len(messages) > 0 /\ messages[Len(messages)].role = "user"

\* C8 (as claimed): a 2xx answer whose body has no response text appends no
\* assistant message and surfaces the failure message.
X8_MalformedIsFailure ==
  [][\A k \in 1..Len(inflight) :
       Resolve(k, Response("ok", Undefined, NoUsage))
       => (messages' = messages /\ error' = FailureText(inflight[k]))]_vars

\* C9: except for Clear Chat, every step leaves the log a prefix of the log
\* after it.
C9_AppendOnly == [][ClearChat \/ IsPrefix(messages, messages')]_vars

\* A second turn has been appended after the first turn and its reply.
W9_SecondTurnAppended ==
  /\ Len(messages) = 3
  /\ messages[1].role = "user" /\ messages[2].role = "assistant"
  /\ messages[3].role = "user"

\* C10: a reply r with usage u appends exactly the assistant message r,
\* adds exactly u and its price to the cost totals (nothing if the answer
\* has no usage), and sets exactly one speak timer for r; a speak timer only
\* goes away by firing, which calls speakText with its text.
C10_ReplyRecorded ==
  [][/\ \A k \in 1..Len(inflight), r \in Replies, u \in Usages \cup {NoUsage} :
          Resolve(k, Response("ok", r, u))
          => /\ messages' = Append(messages, Message("assistant", r))
             /\ costs'.totalPromptTokens = costs.totalPromptTokens + u.promptTokens
             /\ costs'.totalCompletionTokens
                  = costs.totalCompletionTokens + u.completionTokens
             /\ costs'.totalTokens = costs.totalTokens + u.totalTokens
             /\ costs'.totalCostUSD
                  = costs.totalCostUSD + u.promptTokens * PROMPT_TOKEN_COST
                      + u.completionTokens * COMPLETION_TOKEN_COST
             /\ SpeakCount(timers', r) = SpeakCount(timers, r) + 1
             /\ Count(timers', "speak") = Count(timers, "speak") + 1
     /\ Count(timers', "speak") < Count(timers, "speak")
          => \E i \in 1..Len(timers) : SpeakTimerFires(i)]_vars

\* A reply with usage has been taken in: the log ends with it after the
\* user's message, the totals are those of the usage, the speak timer is set.
W10_ReplyTakenIn ==
  /\ Len(messages) = 2
  /\ messages[1].role = "user"
  /\ messages[2] = Message("assistant", <<"r">>)
  /\ costs.totalTokens = 70
  /\ SpeakCount(timers, <<"r">>) = 1
  /\ ~isProcessing

Starting(rs) == Cardinality({i \in 1..Len(rs) : rs[i].phase = "starting"})

EngineIdle == \A i \in 1..Len(recs) : recs[i].phase = "idle"

X12_EndRestarts ==
  [][\A i \in 1..Len(recs) :
       (isListening /\ ~isProcessing /\ OnEnd(i))
       => \/ Count(timers', "endRestart") > Count(timers, "endRestart")
          \/ Starting(recs') > Starting(recs)]_vars

X14_ErrorRestartAttempted ==
  [][/\ \A i \in 1..Len(recs), err \in RecognitionErrors \ {"network", "no-speech"} :
          OnError(i, err) => error' = RecognitionErrorText(err)
     /\ \A i \in 1..Len(timers) :
          (isListening /\ ErrorRestartFires(i))
          => (Starting(recs') > Starting(recs) \/ error' = ErrStart)]_vars

\* C15: a no-speech or network error of the engine changes nothing of the
\* session: the listening, processing and speaking flags, the transcript
\* buffer, the tracked silence timer, the error string and the conversation
\* log keep their values, and the set of pending timers is the same, so no
\* restart is scheduled.
C15_TransientErrorIgnored ==
  [][\A i \in 1..Len(recs), err \in {"network", "no-speech"} :
       OnError(i, err)
       => /\ UNCHANGED << isListening, isProcessing, isSpeaking, finalTranscriptRef,
                          silenceTimer, hasSpokenContent, error, messages >>
          /\ timers' = timers]_vars

\* An error was ignored while the session listens over a buffer with a
\* pending silence timer: the failed session is still to report onend, and
\* no error is shown.
W15_IgnoredWhileListening ==
  /\ isListening /\ error = ErrNone
  /\ finalTranscriptRef # NoText /\ Pending(timers, silenceTimer)
  /\ \E i \in 1..Len(recs) : recs[i].phase = "cancelled"

C17_EmptyLogRejected ==
  [][RequestIELTSScoreOnEmptyLog
       => /\ inflight' = inflight
          /\ error' = ErrNoConversation
          /\ isProcessing' = isProcessing
          /\ messages' = messages]_vars

\* The score was asked for over an empty log.
W17_AskedForConversation ==
  /\ error = ErrNoConversation
  /\ messages = << >> /\ inflight = << >> /\ ~isProcessing

\* C18: the conversationHistory of a turn's request is the conversation log
\* as it stood before the step that submitted the turn, and the log after
\* the step is that history followed by the turn's user message.
C18_HistoryIsLogBefore ==
  [][(Issued /\ LastIssued.requestType = "normal")
       => /\ LastIssued.conversationHistory = messages
          /\ messages' = Append(LastIssued.conversationHistory,
                                Message("user", LastIssued.message))]_vars

\* The request of a second turn is unanswered: its history is the first
\* exchange.
W18_SecondTurnHistory ==
  /\ Len(inflight) = 1 /\ inflight[1].requestType = "normal"
  /\ Len(inflight[1].conversationHistory) = 2
  /\ Len(messages) = 3

Blank(s) == \A j \in 1..Len(s) : IsSpace(s[j])

BlankInputs == {NoText, << " " >>, << " ", " " >>}

\* C19: text that is empty or white space only never becomes a turn:
\* handleUserInput called with it changes nothing, and stopListening and the
\* silence timer over a buffer of such text issue no request and leave the
\* conversation log and isProcessing as they are.
C19_BlankNeverSubmitted ==
  /\ [](\A input \in BlankInputs : HandleUserInput(input, messages, Now) = Now)
  /\ [][(/\ Blank(finalTranscriptRef)
          /\ (StopListening \/ \E i \in 1..Len(timers) : SilenceTimerFires(i)))
         => /\ inflight' = inflight
            /\ messages' = messages
            /\ isProcessing' = isProcessing]_vars

\* stopListening has run over a buffer of white space: the session no longer
\* listens, the spoken-content flag and the tracked timer are reset, nothing
\* was submitted and the white space is still in the buffer.
W19_StoppedOverWhiteSpace ==
  /\ ~isListening /\ ~hasSpokenContent /\ silenceTimer = NoTimer
  /\ finalTranscriptRef # NoText /\ Blank(finalTranscriptRef)
  /\ inflight = << >> /\ messages = << >> /\ ~isProcessing

\* C20 (as claimed): the synthesis engine holds at most one utterance,
\* playing or queued, in every reachable state.
X20_OneUtterance == Len(synthQueue) <= 1

\* C21: a speakText call that has to wait for the voices does not wait for
\* ever: while its fallback timer is pending the synthesis engine is
\* eventually handed an utterance, every firing of a fallback timer hands
\* one over, and eventually no call is left waiting, whether or not
\* voiceschanged is ever reported.
C21_PlaybackNeverWaitsForever ==
  /\ [][\A i \in 1..Len(timers) :
          VoiceFallbackFires(i) => Len(synthQueue') = Len(synthQueue) + 1]_vars
  /\ (Count(timers, "voiceFallback") > 0) ~> (Len(synthQueue) > 0)
  /\ (Count(timers, "voiceFallback") > 0) ~> (Count(timers, "voiceFallback") = 0)

\* The voices never loaded, the fallback timer has fired and the utterance is
\* with the engine; the voiceschanged listener is still waiting.
W21_SpokenWithoutVoices ==
  /\ ~voicesLoaded /\ Len(voiceListeners) = 1
  /\ Count(timers, "voiceFallback") = 0
  /\ Len(synthQueue) = 1

\* The rank of a voice in the order of preference: listed name, female
\* en-US/en-GB, en-US/en-GB, lang starting with en, any other.
Tier(v) ==
  IF v.listed THEN 1
  ELSE IF v.lang \in {"en-US", "en-GB"} /\ v.female THEN 2
  ELSE IF v.lang \in {"en-US", "en-GB"} THEN 3
  ELSE IF LangStartsWithEn(v) THEN 4
  ELSE 5

\* C22 (as claimed): the voice given to an utterance is a voice of the best
\* tier present in the catalog; among voices of no preferred tier it is the
\* first of the catalog, and with an empty catalog it is the engine default.
X22_VoiceByPreference ==
  [][SetVoice =>
       IF availableVoices = << >> THEN utteranceVoice' = EngineDefault
       ELSE /\ \E i \in 1..Len(availableVoices) : utteranceVoice' = availableVoices[i]
            /\ \A i \in 1..Len(availableVoices) :
                 Tier(utteranceVoice') <= Tier(availableVoices[i])
            /\ Tier(utteranceVoice') = 5 => utteranceVoice' = availableVoices[1]]_vars

\* C23 (as claimed): isSpeaking is true after an utterance starts and false
\* after one ends or fails, and stopSpeaking leaves isSpeaking false, the
\* engine without utterances, and no earlier speakText call still waiting to
\* hand its utterance over (no voiceschanged listener, no fallback timer).
X23_StopSpeakingIsFinal ==
  [][/\ UtteranceStart => isSpeaking'
     /\ (UtteranceEnd \/ CancelledUtteranceEvent) => ~isSpeaking'
     /\ StopSpeaking => /\ ~isSpeaking'
                        /\ synthQueue' = << >>
                        /\ voiceListeners' = << >>
                        /\ Count(timers', "voiceFallback") = 0]_vars

UsageSum(a, b) ==
  [promptTokens |-> a.promptTokens + b.promptTokens,
   completionTokens |-> a.completionTokens + b.completionTokens,
   totalTokens |-> a.totalTokens + b.totalTokens]

\* a <= b, and a - b for a >= b.
BLeq(a, b) ==
  \/ Len(a) < Len(b)
  \/ a = b
  \/ /\ Len(a) = Len(b)
     /\ \E i \in 1..Len(a) : a[i] < b[i] /\ \A j \in (i + 1)..Len(a) : a[j] = b[j]

RECURSIVE BSubRaw(_, _, _)
BSubRaw(a, b, c) ==
  IF a = << >> THEN << >>
  ELSE LET t == Head(a) - (IF b = << >> THEN 0 ELSE Head(b)) - c
       IN << (t + LimbBase) % LimbBase >>
            \o BSubRaw(Tail(a), IF b = << >> THEN b ELSE Tail(b),
                       IF t < 0 THEN 1 ELSE 0)

BSub(a, b) == Norm(BSubRaw(a, b, 0))

\* Two doubles that differ by at most 2^-48 of the first.
Close(x, y) ==
  LET e == IF x.e < y.e THEN x.e ELSE y.e
      X == IF x.m = << >> THEN << >> ELSE Shl(x.m, x.e - e)
      Y == IF y.m = << >> THEN << >> ELSE Shl(y.m, y.e - e)
      D == IF BLeq(X, Y) THEN BSub(Y, X) ELSE BSub(X, Y)
  IN BLeq(Shl(D, 48), X)

SameTokens(s, t) ==
  /\ s.totalPromptTokens = t.totalPromptTokens
  /\ s.totalCompletionTokens = t.totalCompletionTokens
  /\ s.totalTokens = t.totalTokens

\* C24 (as claimed): from any totals, recording a then b gives the same five
\* totals as recording a+b at once, and the same as recording b then a.
X24_AdditiveExactly ==
  \A a, b \in UsageInputs :
     /\ CalculateCostJS(CalculateCostJS(costsJS, a), b)
          = CalculateCostJS(costsJS, UsageSum(a, b))
     /\ CalculateCostJS(CalculateCostJS(costsJS, a), b)
          = CalculateCostJS(CalculateCostJS(costsJS, b), a)

\* C24 (amended): from any totals, recording a then b, recording a+b at once
\* and recording b then a give the same three token totals, and USD and BDT
\* totals that are equal in exact arithmetic and, as the JS numbers the code
\* holds, differ by at most 2^-48 of their value.
C24_AdditiveUpToRounding ==
  \A a, b \in UsageInputs :
     LET ab == CalculateCostJS(CalculateCostJS(costsJS, a), b)
         ba == CalculateCostJS(CalculateCostJS(costsJS, b), a)
         once == CalculateCostJS(costsJS, UsageSum(a, b))
     IN /\ SameTokens(ab, once) /\ SameTokens(ab, ba)
        /\ Close(ab.totalCostUSD, once.totalCostUSD)
        /\ Close(ab.totalCostBDT, once.totalCostBDT)
        /\ Close(ab.totalCostUSD, ba.totalCostUSD)
        /\ Close(ab.totalCostBDT, ba.totalCostBDT)
        /\ CalculateCost(CalculateCost(costs, a), b)
             = CalculateCost(costs, UsageSum(a, b))
        /\ CalculateCost(CalculateCost(costs, a), b)
             = CalculateCost(CalculateCost(costs, b), a)

\* The usages {100,50,150} and {200,100,300} have been recorded: the token
\* totals are those of {300,150,450}, the BDT total is not the one a single
\* record of {300,150,450} gives.
W24_TwoUsagesRecorded ==
  /\ costsJS.totalPromptTokens = 300 /\ costsJS.totalCompletionTokens = 150
  /\ costsJS.totalTokens = 450
  /\ costs.totalTokens = 450
  /\ costsJS.totalCostBDT
       # CalculateCostJS(ZeroCostsJS, [promptTokens |-> 300, completionTokens |-> 150,
                                      totalTokens |-> 450]).totalCostBDT

\* C25: a Clear Chat step, from any reachable state, leaves the conversation
\* log empty and all five cost totals zero.
C25_ClearResetsBoth ==
  [][ClearChat =>
       /\ messages' = << >>
       /\ costs'.totalPromptTokens = 0 /\ costs'.totalCompletionTokens = 0
       /\ costs'.totalTokens = 0
       /\ costs'.totalCostUSD = 0 /\ costs'.totalCostBDT = 0]_vars

\* The chat was cleared while the reply of a turn, whose usage had been
\* recorded, was still waiting to be spoken.
W25_ClearedAfterReply ==
  /\ messages = << >> /\ costs = ZeroCosts
  /\ Len(synthQueue) > 0

\* C26: the cost totals are a function of the usage history.  In every
\* state the USD total is the price of the summed prompt and completion
\* tokens and the BDT total is 110 times the USD total (money in millionths);
\* the totals change only by a reply that carries a usage, which adds that
\* usage component-wise to the token totals, or by Clear Chat, which zeroes
\* them; no total decreases otherwise.
C26_TotalsFollowUsage ==
  /\ [](/\ costs.totalCostUSD
             = costs.totalPromptTokens * PROMPT_TOKEN_COST
                 + costs.totalCompletionTokens * COMPLETION_TOKEN_COST
        /\ costs.totalCostBDT = USD_TO_BDT_RATE * costs.totalCostUSD)
  /\ [][\/ costs' = costs
        \/ ClearChat /\ costs' = ZeroCosts
        \/ \E k \in 1..Len(inflight), r \in Replies, u \in Usages :
              /\ Resolve(k, Response("ok", r, u))
              /\ costs'.totalPromptTokens = costs.totalPromptTokens + u.promptTokens
              /\ costs'.totalCompletionTokens
                   = costs.totalCompletionTokens + u.completionTokens
              /\ costs'.totalTokens = costs.totalTokens + u.totalTokens]_vars

\* Two usages of 50 prompt and 20 completion tokens have been recorded since
\* the last reset: 100, 40 and 140 tokens, 1100 millionths of a dollar.
W26_TwoUsagesSummed ==
  /\ costs.totalPromptTokens = 100 /\ costs.totalCompletionTokens = 40
  /\ costs.totalTokens = 140
  /\ costs.totalCostUSD = 1100 /\ costs.totalCostBDT = 121000

InterimText(s) == \E j \in 1..Len(s) : \E seg \in InterimSegments : s[j] = seg[1]

\* C27: interim segments are never persisted.  An onresult event appends
\* exactly its final segments to the buffer, whatever its interim segments
\* are; every other step leaves the buffer alone or empties it; so the buffer
\* is the concatenation of the final segments since it was last emptied.  No
\* buffer, request or user message ever contains interim text.
C27_InterimNeverPersisted ==
  /\ [](/\ ~InterimText(finalTranscriptRef)
        /\ \A k \in 1..Len(inflight) : ~InterimText(inflight[k].message)
        /\ \A j \in 1..Len(messages) :
             messages[j].role = "user" => ~InterimText(messages[j].content))
  /\ [][/\ \A i \in 1..Len(recs), final \in Segments, interim \in Interims :
             OnResult(i, final, interim)
             => finalTranscriptRef' = finalTranscriptRef \o final
        /\ (\A i \in 1..Len(recs), final \in Segments, interim \in Interims :
              ~OnResult(i, final, interim))
             => finalTranscriptRef' \in {finalTranscriptRef, NoText}]_vars

\* An event carried the final segment "a" and an interim segment: the
\* preview shows both, the buffer holds "a" only.
W27_InterimShownNotKept ==
  /\ transcript = <<"a", "i">>
  /\ finalTranscriptRef = <<"a">>

\* C28 (as claimed): in every state at most one silence timer is armed, and
\* an armed silence timer is the one the silenceTimer handle records.
X28_OneTrackedSilenceTimer ==
  /\ Count(timers, "silence") <= 1
  /\ \A i \in 1..Len(timers) :
       timers[i].kind = "silence" => timers[i].id = silenceTimer

\* C29 (as claimed): a speakText call that waits for the voices hands its
\* utterance to the engine at most once.  Its listener and its fallback timer
\* are set together while no voices are loaded, so: a fallback timer that
\* fires belongs to a call whose voiceschanged listener has not run (no
\* voiceschanged yet), and the listeners that voiceschanged runs belong to
\* calls whose fallback timers have not fired.
X29_HandedOverOnce ==
  [][/\ \A i \in 1..Len(timers) : VoiceFallbackFires(i) => ~voicesLoaded
     /\ VoicesChanged => Len(voiceListeners) <= Count(timers, "voiceFallback")]_vars

\* C30: after stopListening the session stays idle until the next
\* startListening.  A stopListening step leaves isListening false and no
\* recognition object about to begin; isListening becomes true only by the
\* onstart of an object; an object is started only by a startListening
\* click; and a restart timer that fires, whenever it was scheduled, starts
\* no object and leaves isListening as it is.
C30_StoppedUntilStarted ==
  [][/\ StopListening => (~isListening' /\ Starting(recs') = 0)
     /\ (~isListening /\ isListening')
          => \E i \in 1..Len(recs) : recs[i].phase = "starting" /\ OnStart(i)
     /\ Starting(recs') > Starting(recs) => StartListening
     /\ \A i \in 1..Len(timers) :
          (ErrorRestartFires(i) \/ EndRestartFires(i))
          => (Starting(recs') <= Starting(recs) /\ isListening' = isListening)]_vars

\* A first start failed and scheduled the restart of onerror; the second
\* start began to listen and was stopped by the third click while that timer
\* was still pending: the session is idle, its last object is ending and no
\* object is about to begin.
W30_StoppedWithRestartPending ==
  /\ ~isListening /\ clicks = 3 /\ error = ErrNone
  /\ Count(timers, "errorRestart") > 0
  /\ \E i \in 1..Len(recs) : recs[i].phase = "stopping"
  /\ Starting(recs) = 0

\* C31 (as claimed): playback is independent of capture and processing.  A
\* step that cancels utterances held by the synthesis engine, playing or
\* queued, is a speakText call (the speak timer of a reply or a replay) or a
\* stopSpeaking click; no recognition event, silence timer or change of the
\* listening or processing flag does.
X31_OnlyPlaybackCancels ==
  [][synthEvents' > synthEvents
       => \/ StopSpeaking
          \/ \E i \in 1..Len(timers) : SpeakTimerFires(i)
          \/ \E i \in 1..Len(messages) : Replay(i)]_vars
====
